---- MODULE Spec2Model ----
(***************************************************************************)
(* Model of lib/libspl/crypto.c: crypto_pass2key, the password-to-key      *)
(* derivation that drives aes_setkey_enc / aes_crypt_cbc over a heap work  *)
(* buffer.  One call of the function is one behaviour: the arguments are   *)
(* fixed in Init, every statement group of the function is one action.     *)
(***************************************************************************)
EXTENDS Integers, Naturals, Sequences, FiniteSets, TLC

\* ---------------------------------------------------------------- bounds
\* longest password handed in (bytes)
MaxKeyDataLen == 33
\* longest salt handed in (bytes)
MaxSaltLen == 13
\* largest desired_keylen handed in (bytes)
MaxDesiredKeylen == 33

\* ------------------------------------------------------ program constants
\* uint32_t iterations = 1000
iterations == 1000
\* unsigned char statickey[32]
StaticKeySize == 32
\* unsigned char iv[16]; also the AES block size used by the CBC loop
IvSize == 16
\* sizeof(iterations), sizeof(uint32_t)
SizeofIterations == 4

\* ------------------------------------------------------------ input sets
KeyDataLens == {4, 20, MaxKeyDataLen}
SaltLens == {8, MaxSaltLen}
DesiredKeylens == {0, 15, 16, 24, 32, MaxDesiredKeylen}
Pointers == {"NULL", "ptr"}
\* return codes the CBC primitive can hand back: 0, or a failure code
CbcReturns == {0, -2064}
\* results of calloc
CallocResults == {"NULL", "blk"}

\* the bytes of the password / salt the caller passes: nonzero, position dependent
PasswordBytes(n) == [j \in 1..n |-> ((j * 7 + 64) % 255) + 1]
SaltBytes(n) == [j \in 1..n |-> ((j * 11 + 160) % 255) + 1]

\* -------------------------------------------------------- byte helpers
Zeros(n) == [j \in 1..n |-> 0]

Min(a, b) == IF a < b THEN a ELSE b

\* memset(dst, c, sizeof dst)
Memset(dst, c) == [j \in 1..Len(dst) |-> c]

\* memcpy(&dst[off], src, n): the bytes that land inside dst
Memcpy(dst, off, src, n) ==
    [j \in 1..Len(dst) |->
        IF (j - 1 >= off) /\ (j - 1 < off + n) THEN src[j - off] ELSE dst[j]]

\* number of bytes of memcpy(&dst[off], src, n) that land past a dst of cap bytes
Overrun(cap, off, n) ==
    IF n = 0 THEN 0
    ELSE IF off >= cap THEN n
    ELSE IF off + n > cap THEN off + n - cap ELSE 0

\* what a build can do after a write past the end of an object
UBOutcomes(over) == IF over > 0 THEN {"continue", "crash"} ELSE {"continue"}

\* the 4 bytes of the uint32_t iterations as memcpy reads them (little endian)
IterationBytes == [j \in 1..SizeofIterations |-> (iterations \div (256 ^ (j - 1))) % 256]


\* what an automatic variable can hold before its first assignment
Indeterminate == {0, 170}
\* what the caller's *out_keydata and *out_keylen hold before the call
CallerPrevKeydata == "prev"
CallerPrevKeylens == {7}

\* ------------------------------------------- the block cipher primitive
\* (declared in aes.h; crypto.c only calls it.  It is modelled as a keyed,
\* byte-wise invertible block transform driven in CBC mode, and its return
\* code is chosen freely at every call)
RECURSIVE XorBits(_, _, _)
XorBits(a, b, n) ==
    IF n = 0 THEN 0
    ELSE (((a % 2) + (b % 2)) % 2) + 2 * XorBits(a \div 2, b \div 2, n - 1)

\* the byte XOR table, built once
XorTab == [a \in 1..256 |-> ([b \in 1..256 |-> XorBits(a - 1, b - 1, 8)] \o << >>)] \o << >>

Xor(a, b) == XorTab[a + 1][b + 1]

\* the context before aes_setkey_enc has run
AesUnset == [nr |-> 0, rk |-> << >>]

\* aes_setkey_enc(ctx, key, keysize): 128/192/256 bits are accepted
AesSetkeyEnc(key, keysize) ==
    IF keysize \in {128, 192, 256}
    THEN [ret |-> 0,
          ctx |-> [nr |-> 6 + (keysize \div 32), rk |-> SubSeq(key, 1, keysize \div 8)]]
    ELSE [ret |-> -2048, ctx |-> AesUnset]

\* one byte of the keyed block transform (a bijection on 0..255 for a fixed key)
EcbByte(ctx, x, j) == (x * 5 + ctx.rk[((j - 1) % Len(ctx.rk)) + 1] + ctx.nr) % 256

\* aes_crypt_cbc(ctx, AES_ENCRYPT, length, iv, input, output) on success:
\* block by block, output = E(input XOR iv) and iv becomes the output block
RECURSIVE CbcBlocks(_, _, _, _, _)
CbcBlocks(ctx, v, data, off, length) ==
    IF off >= length THEN [iv |-> v, out |-> data]
    ELSE LET n == Min(IvSize, length - off)
             c == [j \in 1..n |-> EcbByte(ctx, Xor(data[off + j], v[j]), j)] \o << >>
             out == [j \in 1..Len(data) |->
                        IF (j > off) /\ (j <= off + n) THEN c[j - off] ELSE data[j]]
             v2 == [j \in 1..IvSize |-> IF j <= n THEN c[j] ELSE v[j]]
         IN CbcBlocks(ctx, v2, out, off + IvSize, length)

\* the call with its return code r: a failing call leaves iv and buffer alone
AesCryptCbc(ctx, length, v, data, r) ==
    IF r = 0 THEN CbcBlocks(ctx, v, data, 0, length) ELSE [iv |-> v, out |-> data]

\* ------------------------------------------------------------------ state
VARIABLES
    keydata, keydatalen, salt, saltlen, desired_keylen,   \* arguments
    out_keydata, out_keylen,                              \* output pointers
    star_keydata, star_keylen,                            \* caller's *out_keydata, *out_keylen
    work, buffer, len, i, ret, aes, iv, statickey,        \* locals
    heap, mem, nalloc, nfree,                             \* the calloc'ed block
    pc, retval,                                           \* control, returned value
    nsetkey, setkey_ret, seed_n, seed_over, wr_end, wr_over, \* what key setup and the copies did
    ncalls, failed, arg_iv, arg_in, cbc_iv, cbc_out       \* aes_crypt_cbc call log

args == <<keydata, keydatalen, salt, saltlen, desired_keylen, out_keydata, out_keylen>>
caller == <<star_keydata, star_keylen>>
locals == <<work, buffer, len, i, ret, aes, iv, statickey>>
heapv == <<heap, mem, nalloc, nfree>>
copylog == <<nsetkey, setkey_ret, seed_n, seed_over, wr_end, wr_over>>
calllog == <<ncalls, failed, arg_iv, arg_in, cbc_iv, cbc_out>>
vars == <<args, caller, locals, heapv, pc, retval, copylog, calllog>>

\* entry of crypto_pass2key: the arguments and the initialised locals
Init ==
    /\ keydatalen \in KeyDataLens
    /\ keydata = PasswordBytes(keydatalen)
    /\ saltlen \in SaltLens
    /\ salt = SaltBytes(saltlen)
    /\ desired_keylen \in DesiredKeylens
    /\ out_keydata \in Pointers
    /\ out_keylen \in Pointers
    /\ star_keydata = CallerPrevKeydata
    /\ star_keylen \in CallerPrevKeylens
    /\ work = "NULL"
    /\ buffer = "NULL"
    /\ len \in Indeterminate
    /\ i \in Indeterminate
    /\ ret = -1
    /\ aes = AesUnset
    /\ iv = Zeros(IvSize)
    /\ \E g \in Indeterminate : statickey = [j \in 1..StaticKeySize |-> g]
    /\ heap = "none"
    /\ mem = << >>
    /\ nalloc = 0
    /\ nfree = 0
    /\ pc = "seed"
    /\ retval = "none"
    /\ nsetkey = 0
    /\ setkey_ret = 0
    /\ seed_n = 0
    /\ seed_over = 0
    /\ wr_end = 0
    /\ wr_over = 0
    /\ ncalls = 0
    /\ failed = 0
    /\ arg_iv = << >>
    /\ arg_in = << >>
    /\ cbc_iv = << >>
    /\ cbc_out = << >>

\* variant: a count capped at 16 bytes, the limit the source comment speaks of
SeedCopyLenMax16(kl, dk) == IF kl < IvSize THEN kl ELSE IvSize

\* the count handed to memcpy(statickey, keydata, ...)
SeedCopyLen(kl, dk) == IF kl < dk THEN kl ELSE dk

\* statickey after memset(statickey, 0, sizeof(statickey));
\* memcpy(statickey, keydata, keydatalen < desired_keylen ? keydatalen : desired_keylen)
SeedKeyOf(old, kd, kl, dk) == Memcpy(Memset(old, 0), 0, kd, SeedCopyLen(kl, dk))

\* lines 50-52: build the seed key in statickey
SeedKey ==
    /\ pc = "seed"
    /\ LET n == SeedCopyLen(keydatalen, desired_keylen)
           over == Overrun(StaticKeySize, 0, n)
       IN /\ statickey' = SeedKeyOf(statickey, keydata, keydatalen, desired_keylen)
          /\ seed_n' = n
          /\ seed_over' = over
          /\ \E o \in UBOutcomes(over) :
                pc' = IF o = "crash" THEN "crashed" ELSE "setkey"
    /\ UNCHANGED <<args, caller, work, buffer, len, i, ret, aes, iv, heapv, retval,
                   nsetkey, setkey_ret, wr_end, wr_over, calllog>>

\* variant: the result of aes_setkey_enc is not tested
SetKeyUnchecked ==
    /\ pc = "setkey"
    /\ LET r == AesSetkeyEnc(statickey, desired_keylen * 8)
       IN /\ aes' = r.ctx
          /\ setkey_ret' = r.ret
          /\ nsetkey' = nsetkey + 1
          /\ pc' = "alloc"
    /\ UNCHANGED <<args, caller, work, buffer, len, i, ret, iv, statickey, heapv, retval,
                   seed_n, seed_over, wr_end, wr_over, calllog>>

\* if (aes_setkey_enc(&aes, statickey, desired_keylen * 8)) goto out;
SetKey ==
    /\ pc = "setkey"
    /\ LET r == AesSetkeyEnc(statickey, desired_keylen * 8)
       IN /\ aes' = r.ctx
          /\ setkey_ret' = r.ret
          /\ nsetkey' = nsetkey + 1
          /\ pc' = IF r.ret # 0 THEN "out" ELSE "alloc"
    /\ UNCHANGED <<args, caller, work, buffer, len, i, ret, iv, statickey, heapv, retval,
                   seed_n, seed_over, wr_end, wr_over, calllog>>

\* len = saltlen + sizeof(iterations); buffer = calloc(1, desired_keylen);
\* if (!buffer) goto out;
\* (len is unsigned int; with saltlen <= MaxSaltLen the sum never wraps)
Alloc ==
    /\ pc = "alloc"
    /\ len' = saltlen + SizeofIterations
    /\ \E b \in CallocResults :
          /\ buffer' = b
          /\ IF b = "NULL"
             THEN /\ pc' = "out"
                  /\ UNCHANGED heapv
             ELSE /\ pc' = "assemble"
                  /\ heap' = "live"
                  /\ mem' = Zeros(desired_keylen)
                  /\ nalloc' = nalloc + 1
                  /\ UNCHANGED nfree
    /\ UNCHANGED <<args, caller, work, i, ret, aes, iv, statickey, retval, copylog, calllog>>

\* memcpy(buffer, salt, saltlen);
\* memcpy(&buffer[saltlen], &iterations, sizeof(iterations));
Assemble ==
    /\ pc = "assemble"
    /\ LET m1 == Memcpy(mem, 0, salt, saltlen)
           m2 == Memcpy(m1, saltlen, IterationBytes, SizeofIterations)
           over == Overrun(desired_keylen, 0, saltlen)
                     + Overrun(desired_keylen, saltlen, SizeofIterations)
       IN /\ mem' = m2
          /\ wr_end' = saltlen + SizeofIterations
          /\ wr_over' = over
          /\ \E o \in UBOutcomes(over) :
                pc' = IF o = "crash" THEN "crashed" ELSE "loop_init"
    /\ UNCHANGED <<args, caller, locals, heap, nalloc, nfree, retval,
                   nsetkey, setkey_ret, seed_n, seed_over, calllog>>

\* one aes_crypt_cbc(&aes, AES_ENCRYPT, desired_keylen, iv, buffer, buffer)
\* returning r, passed the iv v and the buffer content data
CbcCall(v, data, r) ==
    LET res == AesCryptCbc(aes, desired_keylen, v, data, r)
    IN /\ ret' = r
       /\ iv' = res.iv
       /\ mem' = res.out
       /\ ncalls' = ncalls + 1
       /\ failed' = IF (r # 0) /\ (failed = 0) THEN ncalls + 1 ELSE failed
       /\ arg_iv' = v
       /\ arg_in' = data
       /\ cbc_iv' = res.iv
       /\ cbc_out' = res.out

\* for-initialiser: ret = aes_crypt_cbc(...), i = 0
LoopInit ==
    /\ pc = "loop_init"
    /\ \E r \in CbcReturns : CbcCall(iv, mem, r)
    /\ i' = 0
    /\ pc' = "loop_test"
    /\ UNCHANGED <<args, caller, work, buffer, len, aes, statickey, heap, nalloc, nfree,
                   retval, copylog>>

\* variant: the body restarts the chain from a zero iv on every call
LoopBodyResetIv ==
    /\ pc = "loop_test"
    /\ (ret = 0) /\ (i < iterations)
    /\ \E r \in CbcReturns : CbcCall(Zeros(IvSize), mem, r)
    /\ i' = i + 1
    /\ pc' = "loop_test"
    /\ UNCHANGED <<args, caller, work, buffer, len, aes, statickey, heap, nalloc, nfree,
                   retval, copylog>>

\* !ret && (i < iterations) holds: body ret = aes_crypt_cbc(...), then i++
\* (i is unsigned int and stops at iterations, so i++ never wraps)
LoopBody ==
    /\ pc = "loop_test"
    /\ (ret = 0) /\ (i < iterations)
    /\ \E r \in CbcReturns : CbcCall(iv, mem, r)
    /\ i' = i + 1
    /\ pc' = "loop_test"
    /\ UNCHANGED <<args, caller, work, buffer, len, aes, statickey, heap, nalloc, nfree,
                   retval, copylog>>

\* the for-condition is false; if (i < iterations) goto out;
LoopExit ==
    /\ pc = "loop_test"
    /\ ~((ret = 0) /\ (i < iterations))
    /\ pc' = IF i < iterations THEN "out" ELSE "store"
    /\ UNCHANGED <<args, caller, locals, heapv, retval, copylog, calllog>>

\* variant: *out_keylen receives len, the salt-plus-counter length
StoreLen ==
    /\ pc = "store"
    /\ IF out_keydata # "NULL"
       THEN /\ star_keydata' = buffer
            /\ buffer' = "NULL"
       ELSE UNCHANGED <<star_keydata, buffer>>
    /\ IF out_keylen # "NULL"
       THEN star_keylen' = len
       ELSE UNCHANGED star_keylen
    /\ ret' = 0
    /\ pc' = "out"
    /\ UNCHANGED <<args, work, len, i, aes, iv, statickey, heapv, retval, copylog, calllog>>

\* if (out_keydata) { *out_keydata = buffer; buffer = NULL; }
\* if (out_keylen) *out_keylen = desired_keylen;  ret = 0;
Store ==
    /\ pc = "store"
    /\ IF out_keydata # "NULL"
       THEN /\ star_keydata' = buffer
            /\ buffer' = "NULL"
       ELSE UNCHANGED <<star_keydata, buffer>>
    /\ IF out_keylen # "NULL"
       THEN star_keylen' = desired_keylen
       ELSE UNCHANGED star_keylen
    /\ ret' = 0
    /\ pc' = "out"
    /\ UNCHANGED <<args, work, len, i, aes, iv, statickey, heapv, retval, copylog, calllog>>

\* variant: the block is freed whether or not it was handed to the caller
OutFreeAlways ==
    /\ pc = "out"
    /\ IF heap = "live"
       THEN /\ heap' = "freed"
            /\ nfree' = nfree + 1
       ELSE UNCHANGED <<heap, nfree>>
    /\ retval' = ret
    /\ pc' = "done"
    /\ UNCHANGED <<args, caller, locals, mem, nalloc, copylog, calllog>>

\* out: if (buffer) free(buffer); if (work) free(work); return ret;
Out ==
    /\ pc = "out"
    /\ IF buffer # "NULL"
       THEN /\ heap' = "freed"
            /\ nfree' = nfree + 1
       ELSE UNCHANGED <<heap, nfree>>
    /\ retval' = ret
    /\ pc' = "done"
    /\ UNCHANGED <<args, caller, locals, mem, nalloc, copylog, calllog>>

Next ==
    \/ SeedKey
    \/ SetKey
    \/ Alloc
    \/ Assemble
    \/ LoopInit
    \/ LoopBody
    \/ LoopExit
    \/ Store
    \/ Out

Spec == Init /\ [][Next]_vars

\* ------------------------------------------------------------ properties
ValidKeylens == {16, 24, 32}

Returned == pc = "done"

OutputsUntouched ==
    /\ star_keydata = CallerPrevKeydata
    /\ star_keylen \in CallerPrevKeylens

\* C1: whenever some aes_crypt_cbc call of the run returned nonzero (the k-th,
\* for any k up to and including the last call of a full run), the function
\* returns nonzero and stores neither a key nor a length.
C1_FailedCallIsReported ==
    (Returned /\ failed # 0) => (retval # 0 /\ OutputsUntouched)

\* C2: a run that returns 0 has made exactly 1000 aes_crypt_cbc calls.
C2_ExactlyIterationsCalls ==
    (Returned /\ retval = 0) => (ncalls = iterations)

\* C3: on every failure path (key setup rejected, calloc failed, some
\* aes_crypt_cbc call failed) the return value is nonzero and the caller's
\* *out_keydata and *out_keylen are as before the call.
C3_FailureLeavesOutputs ==
    (Returned /\ ((nsetkey = 1 /\ setkey_ret # 0)
                  \/ (nsetkey = 1 /\ setkey_ret = 0 /\ nalloc = 0)
                  \/ failed # 0))
        => (retval # 0 /\ OutputsUntouched)

\* C4: assembling the work buffer never writes at an offset >= desired_keylen.
C4_AssembleStaysInBuffer ==
    (nalloc > 0) => (wr_end <= desired_keylen /\ wr_over = 0)

\* C5: a rejected key size ends the run at once with a nonzero return, no
\* allocation and no encryption call; allocation and encryption calls only
\* ever happen after an accepted key setup.
C5_KeySetupFirst ==
    /\ (nsetkey = 1 /\ setkey_ret # 0) =>
          /\ pc \in {"out", "done"}
          /\ nalloc = 0
          /\ ncalls = 0
          /\ buffer = "NULL"
          /\ (Returned => retval # 0)
    /\ (nalloc > 0 \/ ncalls > 0) => (nsetkey = 1 /\ setkey_ret = 0)
    /\ nsetkey <= 1

C5_Witness ==
    Returned /\ nsetkey = 1 /\ setkey_ret # 0 /\ retval # 0

\* C6: the calls form one CBC stream: the first call is passed an all-zero iv,
\* every later call is passed the iv the preceding call left and the buffer
\* the preceding call produced, and no step other than a call changes iv or
\* the work buffer once the first call has been made.
C6_ContinuousChain ==
    [][ /\ (ncalls' = ncalls + 1) =>
              /\ arg_iv' = (IF ncalls = 0 THEN Zeros(IvSize) ELSE cbc_iv)
              /\ (ncalls > 0) => (arg_in' = cbc_out)
        /\ (ncalls' = ncalls /\ ncalls > 0) => (iv' = iv /\ mem' = mem)
      ]_vars

C6_Witness ==
    ncalls = 3 /\ ret = 0 /\ arg_iv # Zeros(IvSize) /\ cbc_iv # arg_iv /\ arg_in # cbc_out

C8_FullKeyReturned ==
    (Returned /\ retval = 0 /\ out_keydata # "NULL" /\ out_keylen # "NULL") =>
        /\ star_keylen = desired_keylen
        /\ star_keydata = "blk"
        /\ heap = "live"
        /\ Len(mem) = desired_keylen
        /\ ncalls > 0
        /\ mem = cbc_out

C8_Witness ==
    Returned /\ retval = 0 /\ out_keydata # "NULL" /\ out_keylen # "NULL"
        /\ star_keylen = desired_keylen /\ mem # Zeros(desired_keylen)

\* C9: the work buffer is allocated at most once, and at return an allocated
\* buffer was either freed exactly once or handed to the caller, never both and
\* never neither.
C9_BufferOwnership ==
    /\ nalloc <= 1
    /\ nfree <= nalloc
    /\ work = "NULL"
    /\ (star_keydata = "blk") => (heap = "live")
    /\ (Returned /\ nalloc = 1) =>
          \/ (nfree = 1 /\ heap = "freed" /\ star_keydata # "blk")
          \/ (nfree = 0 /\ heap = "live" /\ star_keydata = "blk")

C9_Witness ==
    Returned /\ nalloc = 1 /\ nfree = 0 /\ star_keydata = "blk"

\* C10: the number of bytes copied into statickey never exceeds its 32 bytes.
C10_SeedCopyFits ==
    (seed_n <= StaticKeySize) /\ (seed_over = 0)

====
